---- MODULE Spec2Model ----
(***************************************************************************)
(* Model of the headlamp backend (backend/cmd/headlamp.go): the registry   *)
(* of cluster proxies (contextProxies), the port-forward store and the     *)
(* goroutines of a port forward (forwarder, pod watchdog), and the OIDC    *)
(* redirect flow (oauthRequestMap), the proxied requests                   *)
(* (handleClusterRequests), the accesses to the two shared maps, the       *)
(* registration of the contexts at start-up with the TLS configuration of  *)
(* their proxies (createProxyForContext), and /externalproxy.              *)
(*                                                                         *)
(* Granularity: a handler runs as one step up to the point where its       *)
(* goroutine parks (a receive on readyChan, a send on stopChan with no     *)
(* receiver waiting).  A send on stopChan that finds the forwarder parked  *)
(* in its select hands the value over without parking the sender, so it is *)
(* part of the sender's step.                                              *)
(***************************************************************************)
EXTENDS Integers, Sequences, FiniteSets, TLC

VARIABLES
    useInCluster,    \* HeadlampConfig.useInCluster
    insecure,        \* HeadlampConfig.insecure
    pending,         \* contexts[i:] of the loop of line 373: not yet registered
    proxyURLs,       \* HeadlampConfig.proxyURLs: the patterns /externalproxy allows
    contextProxies,  \* HeadlampConfig.contextProxies: name -> contextProxy
    portForwards,    \* var portForwards: cluster -> sequence of PortForward
    tunnels,         \* one record per startPortForward call that reached `go func`
    blockedSends,    \* DELETE /portforward handlers parked in `v.closeChan <- struct{}{}`
    oauthRequestMap, \* oauthRequestMap: state -> the flow recorded by /oidc
    inflight,        \* proxied requests between their lookup (863) and line 876
    accessing,       \* the map accesses that goroutines are in the middle of
    storing,         \* goroutines in portforwardstore between its loop and its write
    plugins,         \* the plugins-changed signal and var pluginListURLs
    resp             \* the response of the handler that completed last

vars == <<useInCluster, insecure, pending, proxyURLs, contextProxies, portForwards, tunnels, blockedSends,
          oauthRequestMap, inflight, accessing, storing, plugins, resp>>

\* the registry, the port forwards, the pending OIDC flows
settings == <<useInCluster, insecure, pending, proxyURLs>>
registry == <<settings, contextProxies>>
forwards == <<portForwards, tunnels, blockedSends>>
routing == <<inflight, accessing, storing, plugins>>

-----------------------------------------------------------------------------
(* Bounds of the model *)

\* startPortForward calls that get as far as starting a forwarder
MaxTunnels == 2
\* DELETE /portforward handlers that may be parked on a send at the same time
MaxBlocked == 1

-----------------------------------------------------------------------------
(* Constants of the program *)

RUNNING == "Running"
STOPPED == "Stopped"

KubeConfig == 1
DynamicCluster == 2
InCluster == 4

StatusOK == 200
StatusCreated == 201
StatusFound == 302
StatusSeeOther == 303
StatusBadRequest == 400
StatusForbidden == 403
StatusNotFound == 404
StatusInternalServerError == 500

\* the response of a handler whose goroutine panicked (net/http recovers it
\* and aborts the connection) is the sequence of codes it wrote before
Response(op, codes, body) ==
    [op |-> op, codes |-> codes, body |-> body, aborted |-> FALSE]

\* a handler whose goroutine panics: net/http recovers and drops the connection
Panicked(op, codes) ==
    [op |-> op, codes |-> codes, body |-> [none |-> TRUE], aborted |-> TRUE]

\* bodies: an error text (its wording is not modelled), a plain text, the
\* clusters of /config, the state of an OIDC redirect
NoBody == [none |-> TRUE]
Text(t) == [text |-> t]
Clusters(cs) == [clusters |-> cs]
Redirect(state) == [state |-> state]

NoResponse == Response("none", <<>>, NoBody)

\* http.Error(w, msg, code)
HttpError(codes, code) == Append(codes, code)

\* w.Write(body): writes the header with 200 when none was written before
Write(codes) == IF codes = <<>> THEN <<StatusOK>> ELSE codes

\* net/http: the first WriteHeader decides the status; a handler that returns
\* without writing answers 200; 0 stands for no answer at all
Status(r) ==
    IF r.aborted /\ r.codes = <<>> THEN 0
    ELSE IF r.codes = <<>> THEN StatusOK ELSE r.codes[1]

-----------------------------------------------------------------------------
(* Inputs *)


\* url.Parse fails on a server whose first path segment holds a colon
UrlParses(server) == server # "::bad"

\* url.Parse of the servers explored: the scheme and the host
ParseURL(server) ==
    CASE server = "https://k1:6443" -> [err |-> FALSE, Scheme |-> "https", Host |-> "k1:6443"]
      [] server = "https://k2:6443" -> [err |-> FALSE, Scheme |-> "https", Host |-> "k2:6443"]
      [] server = "https://k3:6443" -> [err |-> FALSE, Scheme |-> "https", Host |-> "k3:6443"]
      [] server = "http://k4:8080" -> [err |-> FALSE, Scheme |-> "http", Host |-> "k4:8080"]
      [] ~UrlParses(server) -> [err |-> TRUE, Scheme |-> "", Host |-> ""]
      [] OTHER -> [err |-> FALSE, Scheme |-> "", Host |-> ""]

\* a nil []byte
NilBytes == "nil"

\* context.authInfo: a nil pointer, or the user of the kubeconfig with its
\* token, its client certificate and key (paths, "" for none) and their
\* inline data
NilAuthInfo == [nil |-> TRUE]

ClientAuthInfo(token, cert, key, certData, keyData) ==
    [Token |-> token, ClientCertificate |-> cert, ClientKey |-> key,
     ClientCertificateData |-> certData, ClientKeyData |-> keyData]

AuthInfo(token) == ClientAuthInfo(token, "", "", NilBytes, NilBytes)

\* the CA bundle of a cluster that names none, and of one whose
\* certificate-authority file cannot be read
NoCA == ""
UnreadableCA == "unreadable"

\* a Context with its cluster: the server, the CA bundle getCAData yields,
\* what shouldVerifyTLS answers; and its authInfo
ContextOf(name, server, ca, verify, authInfo) ==
    [Name |-> name, Server |-> server, CAData |-> ca, VerifyTLS |-> verify,
     authInfo |-> authInfo]

\* the Context addCluster builds (lines 1027-1038): it sets no authInfo
Context(name, server) == ContextOf(name, server, NoCA, TRUE, NilAuthInfo)

\* a Context of the kubeconfig, or the one of the cluster the server runs in
KubeContext(name, server, token) ==
    ContextOf(name, server, "ca-" \o name, TRUE, AuthInfo(token))

\* cluster.getCAData()
getCAData(context) ==
    IF context.CAData = UnreadableCA THEN [err |-> TRUE, data |-> NilBytes]
    ELSE [err |-> FALSE, data |-> context.CAData]

\* context.getClientCertificate() and the like: nothing without an authInfo
getClientCertificate(context) ==
    IF context.authInfo = NilAuthInfo THEN "" ELSE context.authInfo.ClientCertificate

getClientKey(context) ==
    IF context.authInfo = NilAuthInfo THEN "" ELSE context.authInfo.ClientKey

getClientCertificateData(context) ==
    IF context.authInfo = NilAuthInfo THEN NilBytes
    ELSE context.authInfo.ClientCertificateData

getClientKeyData(context) ==
    IF context.authInfo = NilAuthInfo THEN NilBytes ELSE context.authInfo.ClientKeyData

\* tls.LoadX509KeyPair and tls.X509KeyPair: the certificate of a pair whose
\* key belongs to it, <<>> for a pair that does not load
KeyPairs == {<<"c.crt", "c.key">>, <<"CERT", "KEY">>}

LoadX509KeyPair(cert, key) == IF <<cert, key>> \in KeyPairs THEN <<cert>> ELSE <<>>

\* tls.Config and no tls.Config
TLSConfig(skip, rootCAs, certs) ==
    [InsecureSkipVerify |-> skip, RootCAs |-> rootCAs, Certificates |-> certs]

NoTLSConfig == [none |-> TRUE]

\* rootCAs.AppendCertsFromPEM(certificate)
AppendCertsFromPEM(certificate) == IF certificate = NoCA THEN {} ELSE {certificate}

\* createProxyForContext: nil and an error, or the reverse proxy (the server
\* it was made for) and the tls.Config of its transport
createProxyForContextUnchecked(context) ==
    [err |-> FALSE, proxy |-> context.Server, tls |-> NoTLSConfig]

createProxyForContext(context) ==
    LET failed == [err |-> TRUE, proxy |-> "nil", tls |-> NoTLSConfig]
        shouldVerifyTLS == ~insecure \/ context.VerifyTLS
        certificate == getCAData(context)
        rootCAs == IF shouldVerifyTLS THEN AppendCertsFromPEM(certificate.data) ELSE {}
        clientCert == getClientCertificate(context)
        clientKey == getClientKey(context)
        clientCertData == getClientCertificateData(context)
        clientKeyData == getClientKeyData(context)
        certs == (IF clientCert # "" THEN LoadX509KeyPair(clientCert, clientKey) ELSE <<>>)
                 \o (IF clientCertData # NilBytes
                     THEN LoadX509KeyPair(clientCertData, clientKeyData) ELSE <<>>)
    IN  IF ~UrlParses(context.Server) THEN failed
        ELSE IF shouldVerifyTLS /\ certificate.err THEN failed
        ELSE IF clientCert # "" /\ clientKey = "" THEN failed
        ELSE IF clientCertData # NilBytes /\ clientKeyData = NilBytes THEN failed
        ELSE [err |-> FALSE, proxy |-> context.Server,
              tls |-> TLSConfig(shouldVerifyTLS, rootCAs, certs)]

\* make(map[string]...)
EmptyMap == [n \in {} |-> 0]

contextProxy(context, proxy, source) ==
    [context |-> context, proxy |-> proxy, source |-> source]

\* the start-up configurations explored: whether the process runs in a
\* cluster, its own context, and the contexts of the kubeconfig
StartupConfigs ==
    { [inCluster |-> FALSE, own |-> KubeContext("main", "https://k1:6443", "sa"),
       contexts |-> <<KubeContext("c1", "https://k1:6443", "tok1"),
                      KubeContext("c2", "https://k2:6443", "")>>],
      [inCluster |-> FALSE, own |-> KubeContext("main", "https://k1:6443", "sa"),
       contexts |-> <<KubeContext("c1", "https://k1:6443", "tok1"),
                      KubeContext("c2", "::bad", "")>>],
      [inCluster |-> TRUE, own |-> KubeContext("main", "https://k1:6443", "sa"),
       contexts |-> <<KubeContext("c1", "https://k1:6443", "tok1")>>],
      [inCluster |-> TRUE, own |-> KubeContext("main", "::bad", "sa"),
       contexts |-> <<KubeContext("c1", "https://k1:6443", "tok1")>>] }

\* createHeadlampHandler, lines 330-349: the in-cluster context is stored
\* whether or not its proxy could be built
RegisterInCluster(cfg) ==
    IF cfg.inCluster
    THEN cfg.own.Name :> contextProxy(cfg.own, createProxyForContext(cfg.own).proxy, InCluster)
    ELSE EmptyMap

\* createHeadlampHandler, lines 370-390: the kubeconfig contexts in order, a
\* context whose proxy cannot be built is skipped
RECURSIVE RegisterKubeConfig(_, _)
RegisterKubeConfig(contexts, proxies) ==
    IF contexts = <<>> THEN proxies
    ELSE LET context == Head(contexts)
             made == createProxyForContext(context)
         IN  RegisterKubeConfig(Tail(contexts),
                 IF made.err THEN proxies
                 ELSE [n \in DOMAIN proxies \cup {context.Name} |->
                          IF n = context.Name
                          THEN contextProxy(context, made.proxy, KubeConfig)
                          ELSE proxies[n]])

\* the start-up batches explored: one kubeconfig context with every
\* combination of CA bundle, verification, client certificate and key; a
\* batch with a context that cannot be built between two that can; and the
\* server in a cluster, its own context buildable or not
CredentialContexts ==
    { ContextOf("c1", "https://k1:6443", ca, verify,
                ClientAuthInfo("tok1", cert, key, certData, keyData)) :
        ca \in {"ca-c1", UnreadableCA}, verify \in BOOLEAN,
        cert \in {"", "c.crt"}, key \in {"", "c.key"},
        certData \in {NilBytes, "CERT"}, keyData \in {NilBytes, "KEY"} }

StartupBatches ==
    { [inCluster |-> FALSE, own |-> KubeContext("main", "https://k1:6443", "sa"),
       contexts |-> <<context>>] : context \in CredentialContexts }
    \cup { [inCluster |-> FALSE, own |-> KubeContext("main", "https://k1:6443", "sa"),
            contexts |-> <<KubeContext("c1", "https://k1:6443", "tok1"), bad,
                           KubeContext("c3", "https://k3:6443", "")>>] :
              bad \in { KubeContext("c2", "::bad", ""),
                        ContextOf("c2", "https://k2:6443", UnreadableCA, TRUE, AuthInfo("")),
                        ContextOf("c2", "https://k2:6443", "ca-c2", TRUE,
                                  ClientAuthInfo("", "c.crt", "", NilBytes, NilBytes)),
                        KubeContext("c2", "https://k2:6443", "") } }
    \cup { [inCluster |-> TRUE, own |-> KubeContext("main", server, "sa"),
            contexts |-> <<KubeContext("c1", "https://k1:6443", "tok1")>>] :
              server \in {"https://k1:6443", "::bad"} }

\* one turn of the loop of lines 373-389
RegisterContext ==
    /\ pending # <<>>
    /\ LET context == Head(pending)
           made == createProxyForContext(context)
       IN  /\ pending' = Tail(pending)
           /\ contextProxies' =
                IF made.err THEN contextProxies
                ELSE [n \in DOMAIN contextProxies \cup {context.Name} |->
                         IF n = context.Name
                         THEN contextProxy(context, made.proxy, KubeConfig)
                         ELSE contextProxies[n]]
    /\ UNCHANGED <<useInCluster, insecure, proxyURLs, routing, forwards, oauthRequestMap, resp>>

-----------------------------------------------------------------------------
(* The port-forward store *)

PortForwardUnmarked(p, ch) ==
    [ID |-> p.ID, closeChan |-> ch, Pod |-> p.Pod, Service |-> p.Service,
     ServiceNamespace |-> p.ServiceNamespace, Namespace |-> p.Namespace,
     Cluster |-> p.Cluster, Port |-> p.Port, TargetPort |-> p.TargetPort,
     Status |-> "", Error |-> ""]

PortForward(p, ch) ==
    [ID |-> p.ID, closeChan |-> ch, Pod |-> p.Pod, Service |-> p.Service,
     ServiceNamespace |-> p.ServiceNamespace, Namespace |-> p.Namespace,
     Cluster |-> p.Cluster, Port |-> p.Port, TargetPort |-> p.TargetPort,
     Status |-> RUNNING, Error |-> ""]

\* the zero PortForward that getPortForwardByID returns when nothing matches
ZeroPortForward ==
    [ID |-> "", closeChan |-> 0, Pod |-> "", Service |-> "",
     ServiceNamespace |-> "", Namespace |-> "", Cluster |-> "", Port |-> "",
     TargetPort |-> "", Status |-> "", Error |-> ""]

\* portForwards[cluster]; a missing key reads as the nil slice
Slice(store, cluster) == IF cluster \in DOMAIN store THEN store[cluster] ELSE <<>>

\* the first index whose ID matches, 0 when none (the `for index, v := range` loops)
IndexOfIDOrFirst(s, id) ==
    IF \E i \in 1..Len(s) : s[i].ID = id
    THEN CHOOSE i \in 1..Len(s) : s[i].ID = id /\ \A j \in 1..(i - 1) : s[j].ID # id
    ELSE IF Len(s) > 0 THEN 1 ELSE 0

IndexOfID(s, id) ==
    IF \E i \in 1..Len(s) : s[i].ID = id
    THEN CHOOSE i \in 1..Len(s) : s[i].ID = id /\ \A j \in 1..(i - 1) : s[j].ID # id
    ELSE 0

SetSlice(store, cluster, s) ==
    [c \in DOMAIN store \cup {cluster} |-> IF c = cluster THEN s ELSE store[c]]

\* portforwardstore: update the entry with the same id in place, else append
portforwardstoreAppends(store, p) ==
    SetSlice(store, p.Cluster, Append(Slice(store, p.Cluster), p))

portforwardstore(store, p) ==
    LET s == Slice(store, p.Cluster)
        index == IndexOfID(s, p.ID)
    IN  IF index # 0
        THEN SetSlice(store, p.Cluster, [s EXCEPT ![index] = p])
        ELSE SetSlice(store, p.Cluster, Append(s, p))

getPortForwardList(store, cluster) == Slice(store, cluster)

getPortForwardByID(store, cluster, id) ==
    LET s == Slice(store, cluster)
        index == IndexOfID(s, id)
    IN  IF index # 0 THEN s[index] ELSE ZeroPortForward

\* append(s[:index], s[index+1:]...)
RemoveAt(s, index) == SubSeq(s, 1, index - 1) \o SubSeq(s, index + 1, Len(s))

-----------------------------------------------------------------------------
(* POST /portforward and startPortForward *)

\* a body json.Decode rejects
MalformedBody == [malformed |-> TRUE]

Malformed(body) == "malformed" \in DOMAIN body

\* the well-formed payloads explored: the id may be left to the server, the
\* port too; c1 and c2 are registered at start-up, c3 is not
ValidPayloads ==
    [ID : {"", "a"}, Namespace : {"ns1"}, Pod : {"pod1"}, Service : {""},
     ServiceNamespace : {""}, TargetPort : {"8080"}, Cluster : {"c1"},
     Port : {"", "9000"}]
    \cup [ID : {"a"}, Namespace : {"ns1"}, Pod : {"pod2"}, Service : {"svc"},
          ServiceNamespace : {"ns1"}, TargetPort : {"8080"}, Cluster : {"c2", "c3"},
          Port : {"9000"}]

BasePayload ==
    [ID |-> "a", Namespace |-> "ns1", Pod |-> "pod1", Service |-> "",
     ServiceNamespace |-> "", TargetPort |-> "8080", Cluster |-> "c1", Port |-> ""]

\* the bodies explored: the well-formed payloads, one payload with each
\* required field left empty in turn, and a malformed body
PortForwardBodies ==
    ValidPayloads
    \cup { [BasePayload EXCEPT !.Namespace = ""], [BasePayload EXCEPT !.Pod = ""],
           [BasePayload EXCEPT !.TargetPort = ""], [BasePayload EXCEPT !.Cluster = ""],
           MalformedBody }

AuthorizationHeaders == {"", "Bearer tok", "Basic dXNlcg=="}

\* GetFreePort: 0 with an error, or the port the kernel handed out
FreePortResults == {0, 9000}

\* the requests explored: every well-formed payload, and one payload with each
\* fault in turn (a body that is rejected, an Authorization header, no free
\* port, a failure while the connection is set up, a local port that is no
\* number, which portforward.New refuses)
Request(body, authorization, freePort, setupOk) ==
    [body |-> body, authorization |-> authorization, freePort |-> freePort,
     setupOk |-> setupOk]

PortForwardRequests ==
    { Request(b, "", 9000, TRUE) : b \in ValidPayloads }
    \cup { Request(b, "", 9000, TRUE) : b \in PortForwardBodies \ ValidPayloads }
    \cup { Request(BasePayload, h, 9000, TRUE) : h \in AuthorizationHeaders }
    \cup { Request([BasePayload EXCEPT !.Namespace = ""], h, 9000, TRUE) :
             h \in AuthorizationHeaders }
    \cup { Request(BasePayload, "", f, ok) : f \in FreePortResults, ok \in BOOLEAN }
    \cup { Request([BasePayload EXCEPT !.Port = "http"], "", 9000, FALSE) }

\* validatePortForward: "" when valid, else the message
validatePortForward(p) ==
    IF p.Namespace = "" THEN "namespace is required"
    ELSE IF p.Pod = "" THEN "pod name is required"
    ELSE IF p.TargetPort = "" THEN "targetPort is required"
    ELSE IF p.Cluster = "" THEN "cluster name is required"
    ELSE ""

\* uuid.New().String(): an id no other port forward has
NewUUID == "uuid-" \o ToString(Len(tunnels) + 1)

\* strings.Split(reqToken, "Bearer "), by its length
SplitBearerLen(reqToken) ==
    IF reqToken = "Bearer tok" THEN 2 ELSE 1

\* the goroutines of one startPortForward call
Tunnel(pfts, written) ==
    [pfts |-> pfts,            \* portForwardToStore, shared by both goroutines
     ready |-> FALSE,          \* readyChan is closed
     forwarder |-> "starting", \* starting, forwarding (in its select),
                               \* stopped (it received from stopChan), lost
                               \* (it returned nil), blocked (line 807)
     errOut |-> "",            \* errOut.String(): what ForwardPorts reported
     caller |-> "waiting",     \* startPortForward: waiting (line 815), returned
     written |-> written,      \* what the handler wrote before it parked
     watchdog |-> "none"]      \* none, ticking, blocked (837 or 846), stopped

\* the forwarder of channel ch is parked in its select on stopChan
Receiving(ch) == tunnels[ch].forwarder = "forwarding"

PortForwardPost(body, authorization, freePort, setupOk) ==
    LET op == "POST /portforward"
        p1 == IF body.ID = "" THEN [body EXCEPT !.ID = NewUUID] ELSE body
        invalid == validatePortForward(p1)
        needPort == p1.Port = ""
        codes == IF needPort /\ freePort = 0
                 THEN HttpError(<<>>, StatusInternalServerError) ELSE <<>>
        p == IF needPort /\ freePort # 0
             THEN [p1 EXCEPT !.Port = ToString(freePort)] ELSE p1
    IN  IF Malformed(body)
        THEN /\ resp' = Response(op, HttpError(<<>>, StatusBadRequest), NoBody)
             /\ UNCHANGED <<registry, routing, forwards, oauthRequestMap>>
        ELSE IF authorization # "" /\ SplitBearerLen(authorization) < 2
        THEN /\ resp' = Panicked(op, <<>>)
             /\ UNCHANGED <<registry, routing, forwards, oauthRequestMap>>
        ELSE IF invalid # ""
        THEN /\ resp' = Response(op, HttpError(<<>>, StatusBadRequest), NoBody)
             /\ UNCHANGED <<registry, routing, forwards, oauthRequestMap>>
        ELSE IF p.Cluster \notin DOMAIN contextProxies \/ ~setupOk
        THEN /\ resp' = Response(op, HttpError(codes, StatusInternalServerError), NoBody)
             /\ UNCHANGED <<registry, routing, forwards, oauthRequestMap>>
        ELSE /\ Len(tunnels) < MaxTunnels
             /\ tunnels' = Append(tunnels, Tunnel(PortForward(p, Len(tunnels) + 1), codes))
             /\ UNCHANGED <<registry, routing, portForwards, blockedSends, oauthRequestMap, resp>>

\* ForwardPorts listens and closes readyChan, then waits in its select
ForwardPortsReady(t) ==
    /\ tunnels[t].forwarder = "starting"
    /\ tunnels' = [tunnels EXCEPT ![t].forwarder = "forwarding", ![t].ready = TRUE]
    /\ UNCHANGED <<registry, routing, portForwards, blockedSends, oauthRequestMap, resp>>

\* ForwardPorts returns an error before it is ready (the dial failed, or the
\* listen, which it also reports on errOut): the goroutine of line 804 sends
\* on stopChan, which nobody receives
ForwardPortsFails(t, listening) ==
    /\ tunnels[t].forwarder = "starting"
    /\ tunnels' = [tunnels EXCEPT ![t].forwarder = "blocked",
                                  ![t].errOut = IF listening THEN "Unable to listen on port"
                                                ELSE ""]
    /\ UNCHANGED <<registry, routing, portForwards, blockedSends, oauthRequestMap, resp>>

\* the connection to the pod is lost while forwarding: ForwardPorts returns,
\* with an error or (older client-go) after logging it
ForwardPortsLost(t, withError) ==
    /\ tunnels[t].forwarder = "forwarding"
    /\ tunnels' = [tunnels EXCEPT ![t].forwarder = IF withError THEN "blocked" ELSE "lost"]
    /\ UNCHANGED <<registry, routing, portForwards, blockedSends, oauthRequestMap, resp>>

\* startPortForward from line 815 on, and the rest of the handler
StartPortForwardReady(t) ==
    LET tun == tunnels[t]
        p == [ID |-> tun.pfts.ID, Namespace |-> tun.pfts.Namespace, Pod |-> tun.pfts.Pod,
              Service |-> tun.pfts.Service, ServiceNamespace |-> tun.pfts.ServiceNamespace,
              TargetPort |-> tun.pfts.TargetPort, Cluster |-> tun.pfts.Cluster,
              Port |-> tun.pfts.Port]
    IN  /\ tun.caller = "waiting"
        /\ tun.ready
        /\ portForwards' = IF tun.errOut = ""
                           THEN portforwardstore(portForwards, tun.pfts)
                           ELSE portForwards
        /\ tunnels' = [tunnels EXCEPT ![t].caller = "returned", ![t].watchdog = "ticking"]
        /\ resp' = Response("POST /portforward", Write(tun.written), p)
        /\ UNCHANGED <<registry, routing, blockedSends, oauthRequestMap>>

-----------------------------------------------------------------------------
(* The pod watchdog of a port forward (lines 826-855) *)

PodLookups == {"refused", "error", "notRunning", "running"}

WatchdogError(lookup) ==
    IF lookup = "error" THEN "pods \"pod1\" not found" ELSE "Pod is not running"

\* errors.Is(err, syscall.ECONNREFUSED)
IsConnRefusedNever(lookup) == FALSE

IsConnRefused(lookup) == lookup = "refused"

WatchdogTick(t, lookup) ==
    LET tun == tunnels[t]
        failed == [tun.pfts EXCEPT !.Error = WatchdogError(lookup)]
    IN  /\ tun.watchdog = "ticking"
        /\ IF IsConnRefused(lookup) \/ lookup = "running"
           THEN UNCHANGED <<tunnels, portForwards>>
           ELSE IF Receiving(t)
           THEN /\ tunnels' = [tunnels EXCEPT ![t].forwarder = "stopped",
                                              ![t].pfts = failed,
                                              ![t].watchdog = "stopped"]
                /\ portForwards' = portforwardstore(portForwards, failed)
           ELSE /\ tunnels' = [tunnels EXCEPT ![t].watchdog = "blocked"]
                /\ UNCHANGED portForwards
        /\ UNCHANGED <<registry, routing, blockedSends, oauthRequestMap, resp>>

-----------------------------------------------------------------------------
(* DELETE /portforward and stopOrDeletePortForward *)

DeleteBodies ==
    [ID : {"", "a", "uuid-1", "uuid-2"}, Cluster : {"c1"}, StopOrDelete : BOOLEAN]
    \cup [ID : {"a"}, Cluster : {"", "c2", "c3"}, StopOrDelete : BOOLEAN]
    \cup {MalformedBody}

\* the entry as line 144 changes it
StoppedKeepsStatus(v) == v

Stopped(v) == [v EXCEPT !.Status = STOPPED]

PortForwardDelete(dp) ==
    LET op == "DELETE /portforward"
        s == Slice(portForwards, dp.Cluster)
        index == IndexOfID(s, dp.ID)
        v == s[index]
    IN  IF Malformed(dp) \/ dp.ID = "" \/ dp.Cluster = ""
        THEN /\ resp' = Response(op, HttpError(<<>>, StatusBadRequest), NoBody)
             /\ UNCHANGED <<registry, routing, forwards, oauthRequestMap>>
        ELSE IF index = 0
        THEN /\ resp' = Response(op, HttpError(<<>>, StatusInternalServerError), NoBody)
             /\ UNCHANGED <<registry, routing, forwards, oauthRequestMap>>
        ELSE IF ~dp.StopOrDelete
        THEN /\ portForwards' = SetSlice(portForwards, dp.Cluster, RemoveAt(s, index))
             /\ resp' = Response(op, Write(<<>>), Text("stopped"))
             /\ UNCHANGED <<registry, routing, tunnels, blockedSends, oauthRequestMap>>
        ELSE IF Receiving(v.closeChan)
        THEN /\ tunnels' = [tunnels EXCEPT ![v.closeChan].forwarder = "stopped"]
             /\ portForwards' = SetSlice(portForwards, dp.Cluster, [s EXCEPT ![index] = Stopped(v)])
             /\ resp' = Response(op, Write(<<>>), Text("stopped"))
             /\ UNCHANGED <<registry, routing, blockedSends, oauthRequestMap>>
        ELSE /\ Len(blockedSends) < MaxBlocked
             /\ blockedSends' = Append(blockedSends, [Cluster |-> dp.Cluster, ID |-> dp.ID,
                                                      closeChan |-> v.closeChan])
             /\ UNCHANGED <<registry, routing, portForwards, tunnels, oauthRequestMap, resp>>

-----------------------------------------------------------------------------
(* portforwardstore statement by statement.  Its callers are goroutines of
   their own (a handler at line 820, a forwarder at 810, a watchdog at 839 or
   849) and nothing serialises them: between the loop of line 126, which
   ranges over the slice it read, and the write of line 128 or 133, which
   reads portForwards[p.Cluster] again, other goroutines run. *)

\* goroutines that may be inside portforwardstore at one time
MaxStoring == 2
\* entries a slice of portForwards may grow to
MaxStored == 3

\* the sessions stored: two port forwards of c1 as their handlers store
\* them, and a third, opened with the id of the first, as its watchdog
\* stores it after the pod has gone
StoredSessions ==
    LET a == PortForward(BasePayload, 1)
        b == PortForward([BasePayload EXCEPT !.ID = "uuid-1", !.Port = "9000"], 2)
    IN  {a, b, [PortForward(BasePayload, 3) EXCEPT !.Error = "Pod is not running"]}

\* lines 126-131 up to the match: the index the loop stops at, 0 for none
\* (each goroutine stores its session once at a time)
portforwardstoreScan(p) ==
    /\ Len(storing) < MaxStoring
    /\ \A g \in 1..Len(storing) : storing[g].p # p
    /\ storing' = Append(storing, [p |-> p,
                                    index |-> IndexOfID(Slice(portForwards, p.Cluster), p.ID)])
    /\ UNCHANGED <<registry, forwards, oauthRequestMap, inflight, accessing, plugins, resp>>

\* line 128, portForwards[p.Cluster][index] = p, on the slice as it is now
\* (an index beyond its length panics), or line 133, the append
portforwardstoreWrite(g) ==
    LET p == storing[g].p
        index == storing[g].index
        s == Slice(portForwards, p.Cluster)
    IN  /\ storing' = RemoveAt(storing, g)
        /\ IF index # 0 /\ index > Len(s)
           THEN /\ resp' = Panicked("portforwardstore", <<>>)
                /\ UNCHANGED portForwards
           ELSE IF index # 0
           THEN /\ portForwards' = SetSlice(portForwards, p.Cluster, [s EXCEPT ![index] = p])
                /\ UNCHANGED resp
           ELSE /\ Len(s) < MaxStored
                /\ portForwards' = SetSlice(portForwards, p.Cluster, Append(s, p))
                /\ UNCHANGED resp
        /\ UNCHANGED <<registry, tunnels, blockedSends, oauthRequestMap, inflight, accessing,
                       plugins>>

-----------------------------------------------------------------------------
(* POST /cluster, DELETE /cluster/{name}, GET /config *)

\* ClusterReq bodies explored: names registered at start-up (c1, c2), a new
\* name (c3), servers that parse and one that does not, and the faults
ClusterReqs ==
    [Name : {"c1", "c2", "c3"}, Server : {"https://k1:6443", "https://k3:6443"}]
    \cup { [Name |-> "", Server |-> "https://k3:6443"], [Name |-> "c3", Server |-> ""],
           [Name |-> "c3", Server |-> "::bad"], [Name |-> "c3", Server |-> "http://k4:8080"],
           MalformedBody }

DeleteNames == {"c1", "c2", "c3", "main"}

\* getClusters: the cluster of every entry, in the order the map yields them,
\* which is not specified: the snapshot is read as a set
getClusters(proxies) ==
    { [name |-> proxies[n].context.Name, server |-> proxies[n].context.Server] :
        n \in DOMAIN proxies }

\* delete(c.contextProxies, name)
DeleteKeyKeeps(proxies, name) == proxies

DeleteKey(proxies, name) == [n \in DOMAIN proxies \ {name} |-> proxies[n]]

\* c.contextProxies[name] = entry
SetKey(proxies, name, entry) ==
    [n \in DOMAIN proxies \cup {name} |-> IF n = name THEN entry ELSE proxies[n]]

\* addClusterSetupRoute: both routes exist only outside a cluster
ClusterRoutes == ~useInCluster

addCluster(clusterReq) ==
    LET op == "POST /cluster"
        context == Context(clusterReq.Name, clusterReq.Server)
        made == createProxyForContext(context)
        proxies == SetKey(contextProxies, clusterReq.Name,
                          contextProxy(context, made.proxy, DynamicCluster))
    IN  /\ ClusterRoutes
        /\ IF Malformed(clusterReq)
           THEN /\ resp' = Response(op, HttpError(<<>>, StatusBadRequest), NoBody)
                /\ UNCHANGED contextProxies
           ELSE IF clusterReq.Name = "" \/ clusterReq.Server = ""
           THEN /\ resp' = Response(op, HttpError(<<>>, StatusBadRequest), NoBody)
                /\ UNCHANGED contextProxies
           ELSE IF made.err
           THEN /\ resp' = Response(op, HttpError(<<>>, StatusBadRequest), NoBody)
                /\ UNCHANGED contextProxies
           ELSE /\ contextProxies' = proxies
                /\ resp' = Response(op, <<StatusCreated>>, Clusters(getClusters(proxies)))
        /\ UNCHANGED <<settings, routing, forwards, oauthRequestMap>>

\* line 1076 lets only a cluster added at run time go
NotRemovableAlways(entry) == FALSE

NotRemovable(entry) == entry.source # DynamicCluster

deleteCluster(name) ==
    LET op == "DELETE /cluster/" \o name
        proxies == DeleteKey(contextProxies, name)
    IN  /\ ClusterRoutes
        /\ IF name \notin DOMAIN contextProxies
           THEN /\ resp' = Response(op, HttpError(<<>>, StatusNotFound), NoBody)
                /\ UNCHANGED contextProxies
           ELSE IF NotRemovable(contextProxies[name])
           THEN /\ resp' = Response(op, HttpError(<<>>, StatusForbidden), NoBody)
                /\ UNCHANGED contextProxies
           ELSE /\ contextProxies' = proxies
                /\ resp' = Response(op, Write(<<>>), Clusters(getClusters(proxies)))
        /\ UNCHANGED <<settings, routing, forwards, oauthRequestMap>>

\* DELETE /cluster/{name} in a cluster, where addClusterSetupRoute registers
\* no route: the router answers 404, or the spaHandler serves index.html when
\* a static directory is configured
deleteClusterUnrouted(name, staticDir) ==
    /\ ~ClusterRoutes
    /\ resp' = Response("DELETE /cluster/" \o name,
                        IF staticDir THEN Write(<<>>) ELSE <<StatusNotFound>>, NoBody)
    /\ UNCHANGED <<registry, routing, forwards, oauthRequestMap>>

getConfig ==
    /\ resp' = Response("GET /config", Write(<<>>), Clusters(getClusters(contextProxies)))
    /\ UNCHANGED <<registry, routing, forwards, oauthRequestMap>>

-----------------------------------------------------------------------------
(* /clusters/{clusterName}/{api:.*}: handleClusterRequests and proxyHandler *)

\* proxied requests that may be between line 863 and line 876 at one time
MaxInflight == 1

\* the requests explored: a kubeconfig cluster, one added at run time (or
\* unknown), the in-cluster one; with and without an Authorization header
ProxyRequests ==
    [clusterName : {"c1", "c2", "c3", "main"}, api : {"api/v1/pods", "version"},
     authorization : {"", "Bearer user"}]

\* a nil *Context, and the zero contextProxy a map yields for a missing key
NilContext == [nil |-> TRUE]
ZeroContextProxy == [context |-> NilContext, proxy |-> "nil", source |-> 0]

\* ctxtProxy, ok := c.contextProxies[clusterName]
RegisteredAlways(proxies, name) == TRUE

Registered(proxies, name) == name \in DOMAIN proxies

Entry(proxies, name) ==
    IF name \in DOMAIN proxies THEN proxies[name] ELSE ZeroContextProxy

\* the plugins: whether the watcher has signalled a change since the last
\* proxied request, and pluginListURLs (nil, or the list /plugins cached)
Plugins(changed, listURLs) == [changed |-> changed, pluginListURLs |-> listURLs]

NoPlugins == Plugins(FALSE, "nil")

\* pluginsChanged(): the signal, which reading clears
pluginsChanged(p) == [changed |-> p.changed, plugins |-> [p EXCEPT !.changed = FALSE]]

\* resetPlugins()
resetPlugins(p) == [p EXCEPT !.pluginListURLs = "nil"]

\* setPluginReloadHeader(writer): the X-Reload header of the response
setPluginReloadHeaderNever(changed) == ""

setPluginReloadHeader(changed) == IF changed THEN "reload" ELSE ""

\* lines 992-995: the plugins after a request went through proxyHandler
AfterProxyHandler(p) ==
    IF pluginsChanged(p).changed THEN resetPlugins(pluginsChanged(p).plugins)
    ELSE pluginsChanged(p).plugins

\* the request as proxy.ServeHTTP receives it: the reverse proxy it is handed
\* to, Host and URL.Host, URL.Scheme, URL.Path and the Authorization header;
\* and the X-Reload header the writer holds by then
Forwarded(proxy, host, scheme, path, authorization) ==
    [proxy |-> proxy, Host |-> host, Scheme |-> scheme, Path |-> path,
     Authorization |-> authorization,
     XReload |-> setPluginReloadHeader(pluginsChanged(plugins).changed)]

ProxyOp(r) == "/clusters/" \o r.clusterName \o "/" \o r.api

\* proxyHandler(url, proxy)(writer, request); the status is the backend's.
\* A nil proxy panics in ServeHTTP.
proxyHandlerKeepsHost(r, url, proxy, authorization) ==
    Response(ProxyOp(r), <<>>, Forwarded(proxy, "localhost:4466", "", r.api, authorization))

proxyHandler(r, url, proxy, authorization) ==
    IF proxy = "nil" THEN Panicked(ProxyOp(r), <<>>)
    ELSE Response(ProxyOp(r), <<>>,
                  Forwarded(proxy, url.Host, url.Scheme, r.api, authorization))

\* handleClusterRequests up to line 876: the lookup, the URL of the server,
\* and the hand-over when the caller sent an Authorization header
handleClusterRequests(r) ==
    LET ctxtProxy == Entry(contextProxies, r.clusterName)
        server == ParseURL(ctxtProxy.context.Server)
    IN  /\ IF ~Registered(contextProxies, r.clusterName)
           THEN /\ resp' = Response(ProxyOp(r), HttpError(<<>>, StatusNotFound), NoBody)
                /\ UNCHANGED inflight
           ELSE IF ctxtProxy.context = NilContext
           THEN /\ resp' = Panicked(ProxyOp(r), <<>>)
                /\ UNCHANGED inflight
           ELSE IF server.err
           THEN /\ resp' = Response(ProxyOp(r), <<StatusBadRequest>>, NoBody)
                /\ UNCHANGED inflight
           ELSE IF r.authorization # ""
           THEN /\ resp' = proxyHandler(r, server, ctxtProxy.proxy, r.authorization)
                /\ UNCHANGED inflight
           ELSE /\ Len(inflight) < MaxInflight
                /\ inflight' = Append(inflight, [request |-> r, ctxtProxy |-> ctxtProxy])
                /\ UNCHANGED resp
        /\ plugins' = IF /\ Registered(contextProxies, r.clusterName)
                         /\ ctxtProxy.context # NilContext
                         /\ ~server.err /\ r.authorization # ""
                      THEN AfterProxyHandler(plugins) ELSE plugins
        /\ UNCHANGED <<registry, forwards, oauthRequestMap, accessing, storing>>

\* "Bearer "+token
Bearer(token) == "Bearer " \o token

\* lines 876-886 for a request without Authorization header: the token is
\* read from c.contextProxies[clusterName] again, of which the context (the
\* name is gone) or the authInfo (set by addCluster) may be nil
injectAuthorization(i) ==
    LET r == inflight[i].request
        ctxtProxy == inflight[i].ctxtProxy
        current == Entry(contextProxies, r.clusterName)
        server == ParseURL(ctxtProxy.context.Server)
    IN  /\ resp' =
             IF current.context = NilContext THEN Panicked(ProxyOp(r), <<>>)
             ELSE IF current.context.authInfo = NilAuthInfo THEN Panicked(ProxyOp(r), <<>>)
             ELSE IF current.context.authInfo.Token # ""
             THEN proxyHandler(r, server, ctxtProxy.proxy,
                               Bearer(current.context.authInfo.Token))
             ELSE proxyHandler(r, server, ctxtProxy.proxy, "")
        /\ inflight' = RemoveAt(inflight, i)
        /\ plugins' = IF current.context = NilContext \/ current.context.authInfo = NilAuthInfo
                      THEN plugins ELSE AfterProxyHandler(plugins)
        /\ UNCHANGED <<registry, forwards, oauthRequestMap, accessing, storing>>

\* the watcher of the plugin directory sees a change
watchForChanges ==
    /\ ~useInCluster
    /\ plugins' = [plugins EXCEPT !.changed = TRUE]
    /\ UNCHANGED <<registry, forwards, oauthRequestMap, inflight, accessing, storing, resp>>

\* GET /plugins lists the plugins and keeps the list in pluginListURLs
getPlugins ==
    /\ plugins' = [plugins EXCEPT !.pluginListURLs = "listed"]
    /\ resp' = Response("GET /plugins", Write(<<>>), Text("listed"))
    /\ UNCHANGED <<registry, forwards, oauthRequestMap, inflight, accessing, storing>>

-----------------------------------------------------------------------------
(* /externalproxy (lines 396-420).  A URL and a pattern are sequences of
   pieces of text; the piece "*" of a pattern is the wildcard of glob. *)

\* the allow-lists explored
ProxyURLLists ==
    { <<>>,
      << <<"https://", "a.com", "*">> >>,
      << <<"https://", "*", "/api">> >>,
      << <<"*", "/api/v1">> >>,
      << <<"https://", "a.com", "/">>, <<"http://", "b.com", "*">> >>,
      << <<"*">> >> }

\* the proxy-to headers explored (all of them parse)
ProxyToHeaders ==
    { <<scheme, host, path>> : scheme \in {"http://", "https://", "HTTPS://"},
                               host \in {"a.com", "b.com", "evil.org", "10.0.0.1"},
                               path \in {"/", "/api", "/api/v1"} }

\* url.Parse(s).String(): the scheme comes out in lower case
URLString(proxyTo) ==
    [proxyTo EXCEPT ![1] = IF @ = "HTTPS://" THEN "https://" ELSE @]

\* glob.MustCompile(pattern).Match(s): "*" stands for any run of text
RECURSIVE Match(_, _)
Match(pattern, s) ==
    IF pattern = <<>> THEN s = <<>>
    ELSE IF Head(pattern) = "*"
    THEN Match(Tail(pattern), s) \/ (s # <<>> /\ Match(pattern, Tail(s)))
    ELSE s # <<>> /\ Head(s) = Head(pattern) /\ Match(Tail(pattern), Tail(s))

\* the loop of lines 402-408
isURLContainedInProxyURLs(url) ==
    \E i \in 1..Len(proxyURLs) : Match(proxyURLs[i], URLString(url))

\* the request as proxy.ServeHTTP relays it (line 419)
Relayed(url) == [relayedTo |-> URLString(url)]

\* the handler: after the 400 of line 410 it does not return
externalproxy(proxyTo) ==
    LET codes == IF ~isURLContainedInProxyURLs(proxyTo)
                 THEN HttpError(<<>>, StatusBadRequest) ELSE <<>>
    IN  /\ resp' = Response("/externalproxy", codes, Relayed(proxyTo))
        /\ UNCHANGED <<registry, routing, forwards, oauthRequestMap>>

-----------------------------------------------------------------------------
(* The accesses to the two shared maps.  net/http serves every request in a
   goroutine of its own, the forwarder and the watchdog of a port forward
   are goroutines too, and the file takes no lock anywhere (it does not
   import sync): a goroutine starts a map access whenever it gets there. *)

\* map accesses that may be under way at one time
MaxAccessing == 2

ReadAt(map, line) == [map |-> map, write |-> FALSE, line |-> line]
WriteAt(map, line) == [map |-> map, write |-> TRUE, line |-> line]

\* every statement of the file that reads or writes one of the maps
MapAccesses ==
    { ReadAt("contextProxies", 723), ReadAt("contextProxies", 863),
      ReadAt("contextProxies", 878), ReadAt("contextProxies", 892),
      ReadAt("contextProxies", 1049), WriteAt("contextProxies", 1051),
      ReadAt("contextProxies", 1071), ReadAt("contextProxies", 1076),
      WriteAt("contextProxies", 1081),
      ReadAt("portForwards", 126), WriteAt("portForwards", 128),
      WriteAt("portForwards", 133), ReadAt("portForwards", 137),
      WriteAt("portForwards", 142), WriteAt("portForwards", 146),
      ReadAt("portForwards", 158), ReadAt("portForwards", 162) }

\* a goroutine reaches the statement and starts the access
MapAccessBegin(a) ==
    /\ Len(accessing) < MaxAccessing
    /\ accessing' = Append(accessing, a)
    /\ UNCHANGED <<registry, forwards, oauthRequestMap, inflight, storing, plugins, resp>>

\* the access is over
MapAccessEnd(i) ==
    /\ accessing' = RemoveAt(accessing, i)
    /\ UNCHANGED <<registry, forwards, oauthRequestMap, inflight, storing, plugins, resp>>

-----------------------------------------------------------------------------
(* GET /oidc and GET /oidc-callback *)

\* base64.StdEncoding over bytes; a symbol is its index in the alphabet,
\* Pad is "=", and a value above Pad is a character outside the alphabet
Pad == 64

RECURSIVE EncodeToString(_)
EncodeToString(src) ==
    IF Len(src) = 0 THEN <<>>
    ELSE IF Len(src) = 1
    THEN <<src[1] \div 4, (src[1] % 4) * 16, Pad, Pad>>
    ELSE IF Len(src) = 2
    THEN <<src[1] \div 4, (src[1] % 4) * 16 + (src[2] \div 16), (src[2] % 16) * 4, Pad>>
    ELSE <<src[1] \div 4, (src[1] % 4) * 16 + (src[2] \div 16),
           (src[2] % 16) * 4 + (src[3] \div 64), src[3] % 64>>
         \o EncodeToString(SubSeq(src, 4, Len(src)))

\* DecodeString: the bytes, or an error on a bad length, a character outside
\* the alphabet or misplaced padding
RECURSIVE DecodeString(_)
DecodeString(s) ==
    LET q == SubSeq(s, 1, 4)
        rest == SubSeq(s, 5, Len(s))
        b1 == q[1] * 4 + (q[2] \div 16)
        b2 == (q[2] % 16) * 16 + (q[3] \div 4)
        b3 == (q[3] % 4) * 64 + q[4]
        corrupt == [err |-> TRUE, bytes |-> <<>>]
    IN  IF s = <<>> THEN [err |-> FALSE, bytes |-> <<>>]
        ELSE IF Len(s) < 4 THEN corrupt
        ELSE IF q[1] >= Pad \/ q[2] >= Pad \/ q[3] > Pad \/ q[4] > Pad THEN corrupt
        ELSE IF q[3] = Pad
        THEN IF q[4] = Pad /\ rest = <<>> THEN [err |-> FALSE, bytes |-> <<b1>>] ELSE corrupt
        ELSE IF q[4] = Pad
        THEN IF rest = <<>> THEN [err |-> FALSE, bytes |-> <<b1, b2>>] ELSE corrupt
        ELSE LET more == DecodeString(rest)
             IN  IF more.err THEN corrupt
                 ELSE [err |-> FALSE, bytes |-> <<b1, b2, b3>> \o more.bytes]

\* cluster names of the query, as bytes: "", "c", "c1", "c2", "c12"
OidcClusters == {<<>>, <<99>>, <<99, 49>>, <<99, 50>>, <<99, 49, 50>>}

\* the state values of a callback: none, the state of every cluster, and
\* values that are no base64 (a bad length, a character outside the alphabet)
CallbackStates ==
    { EncodeToString(c) : c \in OidcClusters }
    \cup { <<24>>, <<24, 51, 4>>, <<24, 51, 4, 65>> }

\* how far the provider lets a callback get
CallbackOutcomes == {"exchangeFails", "noIDToken", "verifyFails", "claimsFail", "ok"}

\* &OauthConfig{Config, Verifier, Ctx} as /oidc builds it for a cluster
OauthConfig(cluster) == [cluster |-> cluster]

\* what a callback did: whether it called Exchange and Verify, and the
\* redirect it sent (the cluster and the token of its query), if any
Callback(exchanged, verified, redirected, cluster) ==
    [exchanged |-> exchanged, verified |-> verified, redirected |-> redirected,
     cluster |-> cluster]

\* GET /oidc?cluster=: configOk is GetClusterOidcConfig finding a configuration,
\* providerOk is oidc.NewProvider reaching the issuer
OidcLogin(cluster, configOk, providerOk) ==
    LET op == "GET /oidc"
        state == EncodeToString(cluster)
    IN  /\ IF ~configOk \/ ~providerOk
           THEN /\ resp' = Response(op, HttpError(<<>>, StatusInternalServerError), NoBody)
                /\ UNCHANGED oauthRequestMap
           ELSE /\ oauthRequestMap' = SetKey(oauthRequestMap, state, OauthConfig(cluster))
                /\ resp' = Response(op, <<StatusFound>>, Redirect(state))
        /\ UNCHANGED <<registry, routing, forwards>>

\* oauthRequestMap[state] at line 634: is a login pending for this state
PendingAlways(requests, state) == TRUE

Pending(requests, state) == state \in DOMAIN requests

\* GET /oidc-callback?state=&code=
OidcCallback(state, outcome) ==
    LET op == "GET /oidc-callback"
        decoded == DecodeString(state)
        codes == IF decoded.err THEN HttpError(<<>>, StatusBadRequest) ELSE <<>>
        failed(exchanged, verified) ==
            Response(op, HttpError(codes, StatusInternalServerError),
                     Callback(exchanged, verified, FALSE, <<>>))
    IN  /\ resp' =
             IF state = <<>>
             THEN Response(op, HttpError(codes, StatusBadRequest),
                           Callback(FALSE, FALSE, FALSE, <<>>))
             ELSE IF Pending(oauthRequestMap, state)
             THEN CASE outcome = "exchangeFails" -> failed(TRUE, FALSE)
                    [] outcome = "noIDToken" -> failed(TRUE, FALSE)
                    [] outcome = "verifyFails" -> failed(TRUE, TRUE)
                    [] outcome = "claimsFail" -> failed(TRUE, TRUE)
                    [] OTHER -> Response(op, HttpError(codes, StatusSeeOther),
                                         Callback(TRUE, TRUE, TRUE, decoded.bytes))
             ELSE Response(op, HttpError(codes, StatusBadRequest),
                           Callback(FALSE, FALSE, FALSE, <<>>))
        /\ UNCHANGED <<registry, routing, forwards, oauthRequestMap>>

-----------------------------------------------------------------------------

Init ==
    \E cfg \in StartupConfigs :
        /\ useInCluster = cfg.inCluster
        /\ insecure = FALSE
        /\ pending = <<>>
        /\ proxyURLs = <<>>
        /\ contextProxies = RegisterKubeConfig(cfg.contexts, RegisterInCluster(cfg))
        /\ portForwards = EmptyMap
        /\ tunnels = <<>>
        /\ blockedSends = <<>>
        /\ oauthRequestMap = EmptyMap
        /\ inflight = <<>>
        /\ accessing = <<>>
        /\ storing = <<>>
        /\ plugins = NoPlugins
        /\ resp = NoResponse

NextPortForward ==
    \/ \E r \in PortForwardRequests :
            PortForwardPost(r.body, r.authorization, r.freePort, r.setupOk)
    \/ \E t \in 1..Len(tunnels) : ForwardPortsReady(t)
    \/ \E t \in 1..Len(tunnels), listening \in BOOLEAN : ForwardPortsFails(t, listening)
    \/ \E t \in 1..Len(tunnels), withError \in BOOLEAN : ForwardPortsLost(t, withError)
    \/ \E t \in 1..Len(tunnels) : StartPortForwardReady(t)
    \/ \E t \in 1..Len(tunnels), lookup \in PodLookups : WatchdogTick(t, lookup)
    \/ \E dp \in DeleteBodies : PortForwardDelete(dp)

NextCluster ==
    \/ \E clusterReq \in ClusterReqs : addCluster(clusterReq)
    \/ \E name \in DeleteNames : deleteCluster(name)
    \/ \E name \in DeleteNames, staticDir \in BOOLEAN : deleteClusterUnrouted(name, staticDir)
    \/ getConfig

NextOidc ==
    \/ \E cluster \in OidcClusters, configOk \in BOOLEAN, providerOk \in BOOLEAN :
            OidcLogin(cluster, configOk, providerOk)
    \/ \E state \in CallbackStates, outcome \in CallbackOutcomes :
            OidcCallback(state, outcome)

NextRouter ==
    \/ \E r \in ProxyRequests : handleClusterRequests(r)
    \/ \E i \in 1..Len(inflight) : injectAuthorization(i)
    \/ \E clusterReq \in ClusterReqs : addCluster(clusterReq)
    \/ \E name \in DeleteNames : deleteCluster(name)

NextAccess ==
    \/ \E a \in MapAccesses : MapAccessBegin(a)
    \/ \E i \in 1..Len(accessing) : MapAccessEnd(i)

\* the index of the port forwards: goroutines storing, DELETE /portforward
\* with stopOrDelete false, and the target of the sessions added again at
\* run time and removed
NextStore ==
    \/ \E p \in StoredSessions : portforwardstoreScan(p)
    \/ \E g \in 1..Len(storing) : portforwardstoreWrite(g)
    \/ \E dp \in DeleteBodies : ~Malformed(dp) /\ ~dp.StopOrDelete /\ PortForwardDelete(dp)
    \/ addCluster([Name |-> "c1", Server |-> "https://k3:6443"])
    \/ deleteCluster("c1")

\* the proxied requests and the plugins
NextPlugins ==
    \/ \E r \in ProxyRequests : handleClusterRequests(r)
    \/ \E i \in 1..Len(inflight) : injectAuthorization(i)
    \/ watchForChanges
    \/ getPlugins

NextStartup == RegisterContext

NextExternal == \E proxyTo \in ProxyToHeaders : externalproxy(proxyTo)

Next ==
    \/ NextPortForward \/ NextCluster \/ NextOidc \/ NextRouter \/ NextAccess
    \/ NextStore \/ NextStartup \/ NextExternal \/ NextPlugins

Spec == Init /\ [][Next]_vars

\* the port forwards of a server whose kubeconfig holds c1 and c2
InitPortForward == Init /\ DOMAIN contextProxies = {"c1", "c2"}

SpecPortForward == InitPortForward /\ [][NextPortForward]_vars

\* the port forwards with the goroutines scheduled fairly: a caller whose
\* readyChan is closed goes on, and a watchdog whose ticker fires polls
FairPortForward ==
    /\ SpecPortForward
    /\ \A t \in 1..MaxTunnels :
          /\ WF_vars(t <= Len(tunnels) /\ StartPortForwardReady(t))
          /\ WF_vars(t <= Len(tunnels) /\ \E lookup \in PodLookups : WatchdogTick(t, lookup))

\* start-up from line 330 on: the in-cluster context is registered, the
\* contexts of the kubeconfig are about to be
InitStartup ==
    \E cfg \in StartupBatches, flag \in BOOLEAN :
        /\ useInCluster = cfg.inCluster
        /\ insecure = flag
        /\ pending = cfg.contexts
        /\ proxyURLs = <<>>
        /\ contextProxies = RegisterInCluster(cfg)
        /\ portForwards = EmptyMap
        /\ tunnels = <<>>
        /\ blockedSends = <<>>
        /\ oauthRequestMap = EmptyMap
        /\ inflight = <<>>
        /\ accessing = <<>>
        /\ storing = <<>>
        /\ plugins = NoPlugins
        /\ resp = NoResponse

SpecStartup == InitStartup /\ [][NextStartup]_vars

\* /externalproxy under every allow-list explored
InitExternal ==
    \E cfg \in StartupConfigs, list \in ProxyURLLists :
        /\ useInCluster = cfg.inCluster
        /\ insecure = FALSE
        /\ pending = <<>>
        /\ proxyURLs = list
        /\ contextProxies = RegisterKubeConfig(cfg.contexts, RegisterInCluster(cfg))
        /\ cfg.inCluster = FALSE /\ DOMAIN contextProxies = {"c1", "c2"}
        /\ portForwards = EmptyMap
        /\ tunnels = <<>>
        /\ blockedSends = <<>>
        /\ oauthRequestMap = EmptyMap
        /\ inflight = <<>>
        /\ accessing = <<>>
        /\ storing = <<>>
        /\ plugins = NoPlugins
        /\ resp = NoResponse

SpecExternal == InitExternal /\ [][NextExternal]_vars

\* the proxied requests with the plugins changing
SpecPlugins == Init /\ [][NextPlugins]_vars

\* the index of the port forwards under concurrent stores
SpecStore == InitPortForward /\ [][NextStore]_vars

\* the proxied requests, with the registry changing under them
SpecRouter == Init /\ [][NextRouter]_vars

\* the goroutines' accesses to the maps
SpecAccess == Init /\ [][NextAccess]_vars

\* the OIDC flow alone
SpecOidc == Init /\ [][NextOidc]_vars

\* the registry alone, from every start-up configuration
SpecCluster == Init /\ [][NextCluster]_vars

-----------------------------------------------------------------------------
(* Port forwards: cancellation and readiness *)

\* C1: cancelling a tunnel a second time never deadlocks: no close call is
\* parked on the cancellation channel of a session that a close has already
\* stopped.  The code sends on an unbuffered channel that ForwardPorts
\* receives from once, so the second sender parks for ever.
C1_SecondCancelReturns ==
    \A i \in 1..Len(blockedSends) :
        LET call == blockedSends[i]
            v == getPortForwardByID(portForwards, call.Cluster, call.ID)
        IN  ~(v.Status = STOPPED /\ v.closeChan = call.closeChan)

\* C2: an open call never waits for ever on readiness: while startPortForward
\* waits at line 815 the tunnel is still starting or has become ready.  The
\* code closes readyChan only on success, so a forwarder that fails first
\* leaves the caller waiting with nothing left to wake it.
C2_OpenReturns ==
    \A t \in 1..Len(tunnels) :
        tunnels[t].caller = "waiting" =>
            tunnels[t].forwarder = "starting" \/ tunnels[t].ready

\* C3: a close with stopOrDelete = true that returns has signalled the
\* tunnel's channel, and the session is still returned by get and list, at
\* its position, with status Stopped and every other field unchanged.
C3_StopKeepsSession ==
    [][\A dp \in DeleteBodies \ {MalformedBody} :
         LET s == Slice(portForwards, dp.Cluster)
             index == IndexOfID(s, dp.ID)
             v == s[index]
             list == getPortForwardList(portForwards', dp.Cluster)
         IN  (dp.StopOrDelete /\ index # 0 /\ PortForwardDelete(dp)
                /\ blockedSends' = blockedSends)
             => /\ Status(resp') = StatusOK
                /\ Receiving(v.closeChan)
                /\ tunnels'[v.closeChan].forwarder = "stopped"
                /\ getPortForwardByID(portForwards', dp.Cluster, dp.ID)
                     = [v EXCEPT !.Status = STOPPED]
                /\ Len(list) = Len(s)
                /\ list[index] = [v EXCEPT !.Status = STOPPED]
                /\ \A i \in 1..Len(s) : i # index => list[i] = s[i]
      ]_vars

\* a stopped session, still indexed, whose forwarder took the signal
C3_Stopped ==
    /\ resp = Response("DELETE /portforward", <<StatusOK>>, Text("stopped"))
    /\ \E c \in DOMAIN portForwards : \E i \in 1..Len(portForwards[c]) :
          /\ portForwards[c][i].Status = STOPPED
          /\ tunnels[portForwards[c][i].closeChan].forwarder = "stopped"

\* C4: once a close with stopOrDelete = false has removed a session, no list
\* or get returns it until a new open with that id is accepted: an id that is
\* not in its target's index enters it only when startPortForward stores it.
\* (A watchdog runs only for a session that was stored, so its session is
\* absent only after a delete.)  The watchdog of the deleted session stores
\* it again.
C4_DeletedStaysAbsent ==
    [][\A t \in 1..Len(tunnels) :
         LET p == tunnels[t].pfts
         IN  (IndexOfID(Slice(portForwards, p.Cluster), p.ID) = 0
                /\ IndexOfID(Slice(portForwards', p.Cluster), p.ID) # 0)
             => \E u \in 1..Len(tunnels) :
                   /\ tunnels[u].pfts.ID = p.ID
                   /\ tunnels[u].pfts.Cluster = p.Cluster
                   /\ StartPortForwardReady(u)
      ]_vars

\* C5: a watchdog tick that finds the pod not running cancels the tunnel,
\* leaves the session with status Error and a diagnostic, and ends the
\* watchdog.  The code sets only the Error text: no status but Running and
\* Stopped exists.
C5_WatchdogMarksError ==
    [][\A t \in 1..Len(tunnels) :
         LET p == tunnels[t].pfts
             stored == getPortForwardByID(portForwards', p.Cluster, p.ID)
         IN  (tunnels[t].watchdog = "ticking" /\ WatchdogTick(t, "notRunning"))
             => /\ tunnels'[t].forwarder # "forwarding"
                /\ tunnels'[t].watchdog = "stopped"
                /\ stored.Status = "Error"
                /\ stored.Error # ""
      ]_vars

\* C6: an open whose id is already indexed for the same target replaces that
\* entry at its position: the count stays, the other entries and the other
\* targets are unchanged.
C6_ReplaceInPlace ==
    [][\A t \in 1..Len(tunnels) :
         LET p == tunnels[t].pfts
             s == Slice(portForwards, p.Cluster)
             index == IndexOfID(s, p.ID)
             list == getPortForwardList(portForwards', p.Cluster)
         IN  (index # 0 /\ StartPortForwardReady(t))
             => /\ Len(list) = Len(s)
                /\ list[index] = p
                /\ \A i \in 1..Len(s) : i # index => list[i] = s[i]
                /\ \A c \in DOMAIN portForwards \ {p.Cluster} :
                      Slice(portForwards', c) = portForwards[c]
      ]_vars

\* two opens with one id for one target have returned, and the index holds
\* one entry for them, that of the second
C6_Replaced ==
    /\ Len(tunnels) = 2
    /\ tunnels[1].caller = "returned" /\ tunnels[2].caller = "returned"
    /\ tunnels[1].pfts.ID = tunnels[2].pfts.ID
    /\ tunnels[1].pfts.Cluster = tunnels[2].pfts.Cluster
    /\ Slice(portForwards, tunnels[2].pfts.Cluster) = <<tunnels[2].pfts>>

-----------------------------------------------------------------------------
(* The OIDC flow *)

\* C7: a state is good for one callback: the callback that ends in the
\* redirect with the token deletes the pending login.  The code never
\* deletes from oauthRequestMap, so the same state is served again.
C7_StateSingleUse ==
    [][\A state \in CallbackStates :
         (state # <<>> /\ state \in DOMAIN oauthRequestMap /\ OidcCallback(state, "ok"))
         => state \notin DOMAIN oauthRequestMap'
      ]_vars

\* C8: a callback whose state is empty or has no pending login is answered
\* 400: no exchange, no verification, no redirect, and the pending logins are
\* unchanged.
C8_UnknownStateRejected ==
    [][\A state \in CallbackStates, outcome \in CallbackOutcomes :
         ((state = <<>> \/ state \notin DOMAIN oauthRequestMap)
            /\ OidcCallback(state, outcome))
         => /\ Status(resp') = StatusBadRequest
            /\ resp'.body = Callback(FALSE, FALSE, FALSE, <<>>)
            /\ oauthRequestMap' = oauthRequestMap
      ]_vars

\* a callback was rejected while a login was pending, after a state that is
\* no base64 (400 is written twice, the first one counts)
C8_Rejected ==
    /\ resp = Response("GET /oidc-callback", <<StatusBadRequest, StatusBadRequest>>,
                       Callback(FALSE, FALSE, FALSE, <<>>))
    /\ oauthRequestMap # EmptyMap

\* C30: a callback for a pending state that fails at the exchange of the
\* code, at the id_token of the answer or at its verification is answered
\* 500 without redirect, and the state is no longer pending afterwards.  No
\* line of the handler deletes from oauthRequestMap (C7): the entry stays.
C30_FailedCallbackConsumes ==
    [][\A state \in CallbackStates :
         \A outcome \in {"exchangeFails", "noIDToken", "verifyFails"} :
           (state # <<>> /\ state \in DOMAIN oauthRequestMap /\ OidcCallback(state, outcome))
           => /\ Status(resp') = StatusInternalServerError
              /\ ~resp'.body.redirected
              /\ state \notin DOMAIN oauthRequestMap'
      ]_vars

-----------------------------------------------------------------------------
(* The registry *)

\* a DELETE /cluster/{name} request was answered in this step
Removes(name) ==
    deleteCluster(name) \/ \E staticDir \in BOOLEAN : deleteClusterUnrouted(name, staticDir)

\* C9 as stated: removing a target that came from the kubeconfig or from the
\* cluster the server runs in always fails with 403 and leaves the registry
\* unchanged.  In a cluster the route is not registered and the request never
\* reaches deleteCluster: the answer is 404 or the front end's index.html.
C9_RemoveForbidden ==
    [][\A name \in DeleteNames :
         (name \in DOMAIN contextProxies
            /\ contextProxies[name].source \in {KubeConfig, InCluster}
            /\ Removes(name))
         => /\ Status(resp') = StatusForbidden
            /\ contextProxies' = contextProxies
      ]_vars

\* C9 amended: removing a target that came from the kubeconfig or from the
\* cluster leaves the registry unchanged, and fails with 403 wherever the
\* route is registered (outside a cluster).
C9_RemoveForbiddenWhereRouted ==
    [][\A name \in DeleteNames :
         (name \in DOMAIN contextProxies
            /\ contextProxies[name].source \in {KubeConfig, InCluster}
            /\ Removes(name))
         => /\ ClusterRoutes => Status(resp') = StatusForbidden
            /\ contextProxies' = contextProxies
      ]_vars

\* the removal of a kubeconfig cluster was refused
C9_Refused ==
    /\ resp = Response("DELETE /cluster/c1", <<StatusForbidden>>, NoBody)
    /\ "c1" \in DOMAIN contextProxies
    /\ contextProxies["c1"].source = KubeConfig

\* C10: removing a target added at run time succeeds: the answer is the
\* snapshot without the name and the name is no longer registered; a remove
\* of a name that is not registered is answered 404 and changes nothing; and
\* a name that is not registered becomes registered only by an add of it, so
\* without one every later remove is answered 404.
C10_RemoveOnce ==
    [][\A name \in DeleteNames :
         /\ (name \in DOMAIN contextProxies
               /\ contextProxies[name].source = DynamicCluster
               /\ deleteCluster(name))
            => /\ Status(resp') = StatusOK
               /\ name \notin DOMAIN contextProxies'
               /\ resp'.body = Clusters(getClusters(contextProxies'))
               /\ \A c \in resp'.body.clusters : c.name # name
               /\ \A n \in DOMAIN contextProxies \ {name} :
                     n \in DOMAIN contextProxies' /\ contextProxies'[n] = contextProxies[n]
         /\ (name \notin DOMAIN contextProxies /\ deleteCluster(name))
            => /\ Status(resp') = StatusNotFound
               /\ contextProxies' = contextProxies
         /\ (name \notin DOMAIN contextProxies /\ name \in DOMAIN contextProxies')
            => \E clusterReq \in ClusterReqs \ {MalformedBody} :
                  clusterReq.Name = name /\ addCluster(clusterReq)
      ]_vars

\* a cluster added at run time was removed, the others are still registered
C10_Removed ==
    /\ resp.op = "DELETE /cluster/c3"
    /\ Status(resp) = StatusOK
    /\ "c3" \notin DOMAIN contextProxies
    /\ resp.body = Clusters(getClusters(contextProxies))
    /\ DOMAIN contextProxies = {"c1", "c2"}

-----------------------------------------------------------------------------
(* The router *)

\* the response hands the request to a reverse proxy with the host and the
\* scheme of the server and with the path that follows the routing prefix
ForwardedTo(response, server, path) ==
    /\ ~response.aborted
    /\ "Host" \in DOMAIN response.body
    /\ response.body.Host = ParseURL(server).Host
    /\ response.body.Scheme = ParseURL(server).Scheme
    /\ response.body.Path = path

\* the token a registry entry holds, "" when it holds none
TokenOf(entry) ==
    IF entry.context.authInfo = NilAuthInfo THEN "" ELSE entry.context.authInfo.Token

\* C11: a request routed to a target that addCluster registered is forwarded
\* with the host and the scheme of the target's server and with the path
\* after the routing prefix.  The Context addCluster builds has a nil
\* authInfo, which line 878 dereferences when the caller sent no
\* Authorization header: the handler panics and nothing is forwarded.
C11_AddedTargetRouted ==
    [][/\ \A r \in ProxyRequests :
            LET e == Entry(contextProxies, r.clusterName)
            IN  (Registered(contextProxies, r.clusterName) /\ e.source = DynamicCluster
                   /\ r.authorization # "" /\ handleClusterRequests(r))
                => ForwardedTo(resp', e.context.Server, r.api)
       /\ \A i \in 1..Len(inflight) :
            LET e == inflight[i].ctxtProxy
            IN  (e.source = DynamicCluster /\ injectAuthorization(i))
                => ForwardedTo(resp', e.context.Server, inflight[i].request.api)
      ]_vars

\* C13: a proxied request whose target is not registered when it is looked
\* up is answered 404, is handed to no reverse proxy, and leaves the registry
\* unchanged.
C13_UnknownTargetNotFound ==
    [][\A r \in ProxyRequests :
         (r.clusterName \notin DOMAIN contextProxies /\ handleClusterRequests(r))
         => /\ resp' = Response(ProxyOp(r), <<StatusNotFound>>, NoBody)
            /\ contextProxies' = contextProxies
            /\ inflight' = inflight
      ]_vars

\* a request for a cluster that was never added was answered 404
C13_NotFound ==
    /\ resp = Response("/clusters/c3/version", <<StatusNotFound>>, NoBody)
    /\ "c3" \notin DOMAIN contextProxies

\* C14: the request forwarded for a registered target carries the caller's
\* Authorization header when the caller sent one, "Bearer <token>" when the
\* caller sent none and the target holds a token, and no header when the
\* target holds no token (the registry not changing meanwhile).  For a target
\* with a nil authInfo line 878 panics instead of forwarding without header.
C14_BearerInjected ==
    [][/\ \A r \in ProxyRequests :
            LET e == Entry(contextProxies, r.clusterName)
            IN  (Registered(contextProxies, r.clusterName)
                   /\ ~ParseURL(e.context.Server).err
                   /\ r.authorization # "" /\ handleClusterRequests(r))
                => /\ "Authorization" \in DOMAIN resp'.body
                   /\ resp'.body.Authorization = r.authorization
       /\ \A i \in 1..Len(inflight) :
            LET e == inflight[i].ctxtProxy
            IN  (Entry(contextProxies, inflight[i].request.clusterName) = e
                   /\ injectAuthorization(i))
                => /\ "Authorization" \in DOMAIN resp'.body
                   /\ resp'.body.Authorization =
                        IF TokenOf(e) # "" THEN Bearer(TokenOf(e)) ELSE ""
      ]_vars

\* C16: a request that found its target uses that one entry throughout: what
\* is forwarded (server, handler, token) is what the entry it looked up
\* determines, whatever happens to the name meanwhile.  Line 878 reads the
\* map again: after a replacement by addCluster it finds no authInfo.
C16_OneEntryPerRequest ==
    [][\A i \in 1..Len(inflight) :
         LET r == inflight[i].request
             e == inflight[i].ctxtProxy
         IN  (e.context.authInfo # NilAuthInfo /\ injectAuthorization(i))
             => resp' = proxyHandler(r, ParseURL(e.context.Server), e.proxy,
                                     IF TokenOf(e) # "" THEN Bearer(TokenOf(e)) ELSE "")
      ]_vars

\* the response records one hand-over of the request to that reverse proxy
HandedTo(response, proxy) ==
    /\ ~response.aborted
    /\ "proxy" \in DOMAIN response.body
    /\ response.body.proxy = proxy

\* C32: a proxied request to a registered target (with a reverse proxy and a
\* server URL that parses) ends handed to the reverse proxy of the entry it
\* looked up, once, whatever the provenance of the target, whether or not
\* the target holds credentials and whether or not the caller sent an
\* Authorization header.  Without the header, a target whose context has no
\* authInfo (every target addCluster registered) panics at line 878 before
\* proxyHandler is reached.
C32_HandedToProxyOnce ==
    [][/\ \A r \in ProxyRequests :
            LET e == Entry(contextProxies, r.clusterName)
            IN  (Registered(contextProxies, r.clusterName) /\ e.proxy # "nil"
                   /\ ~ParseURL(e.context.Server).err
                   /\ r.authorization # "" /\ handleClusterRequests(r))
                => HandedTo(resp', e.proxy) /\ inflight' = inflight
       /\ \A i \in 1..Len(inflight) :
            LET e == inflight[i].ctxtProxy
            IN  (Entry(contextProxies, inflight[i].request.clusterName) = e
                   /\ e.proxy # "nil" /\ injectAuthorization(i))
                => HandedTo(resp', e.proxy) /\ inflight' = RemoveAt(inflight, i)
      ]_vars

\* C31: a proxied request that reaches proxyHandler while the plugins have
\* changed clears the signal (and pluginListURLs) and answers with X-Reload:
\* reload; while they have not it sets no X-Reload and leaves the plugins
\* alone; either way the request goes to the proxy of the entry with the
\* host, the scheme and the path it would have without the signal.
C31_ReloadHeader ==
    [][/\ \A r \in ProxyRequests :
            LET e == Entry(contextProxies, r.clusterName)
            IN  (Registered(contextProxies, r.clusterName) /\ e.proxy # "nil"
                   /\ ~ParseURL(e.context.Server).err
                   /\ r.authorization # "" /\ handleClusterRequests(r))
                => /\ ForwardedTo(resp', e.context.Server, r.api)
                   /\ resp'.body.proxy = e.proxy
                   /\ resp'.body.Authorization = r.authorization
                   /\ resp'.body.XReload = IF plugins.changed THEN "reload" ELSE ""
                   /\ plugins' = IF plugins.changed THEN NoPlugins ELSE plugins
       /\ \A i \in 1..Len(inflight) :
            LET e == inflight[i].ctxtProxy
                current == Entry(contextProxies, inflight[i].request.clusterName)
            IN  (e.proxy # "nil" /\ current.context # NilContext
                   /\ current.context.authInfo # NilAuthInfo /\ injectAuthorization(i))
                => /\ ForwardedTo(resp', e.context.Server, inflight[i].request.api)
                   /\ resp'.body.proxy = e.proxy
                   /\ resp'.body.XReload = IF plugins.changed THEN "reload" ELSE ""
                   /\ plugins' = IF plugins.changed THEN NoPlugins ELSE plugins
      ]_vars

\* a request was forwarded with X-Reload after the plugins had changed, and
\* the signal is cleared
C31_Reloaded ==
    /\ resp.op = "/clusters/c1/version"
    /\ ~resp.aborted
    /\ resp.body.XReload = "reload"
    /\ resp.body.Host = "k1:6443"
    /\ plugins = NoPlugins

-----------------------------------------------------------------------------
(* The registry: adding and start-up *)

C34_StaticStays ==
    [][\A name \in DOMAIN contextProxies :
         contextProxies[name].source \in {KubeConfig, InCluster}
         => /\ name \in DOMAIN contextProxies'
            /\ contextProxies'[name] = contextProxies[name]
      ]_vars

\* C15: every entry of the registry holds a proxy handler: none is stored
\* when building the handler failed.  In a cluster, lines 339-348 log the
\* error of createProxyForContext and store the entry with a nil proxy.
C15_EntriesHaveProxy ==
    \A n \in DOMAIN contextProxies : contextProxies[n].proxy # "nil"

-----------------------------------------------------------------------------
(* Start-up: the proxy of a context and its TLS configuration *)

\* C25: no proxy is built, and the context is not registered, when a client
\* certificate comes without a key or a client key without a certificate,
\* as files or inline.  Lines 940-958 look at the key only after they found
\* a certificate: a key without certificate is passed over in silence.
C25_CertificateAndKeyPaired ==
    [][RegisterContext
       => LET context == Head(pending)
              made == createProxyForContext(context)
              cert == getClientCertificate(context)
              key == getClientKey(context)
              certData == getClientCertificateData(context)
              keyData == getClientKeyData(context)
          IN  ((cert = "") # (key = "") \/ (certData = NilBytes) # (keyData = NilBytes))
              => /\ made.err
                 /\ made.proxy = "nil"
                 /\ contextProxies' = contextProxies
      ]_vars

\* C26: the tls.Config of a proxy skips the verification of the server's
\* certificate exactly when verification is off for the context (the
\* server runs with insecure and the cluster asks for no verification), and
\* otherwise trusts the CA bundle of the cluster.  Line 961 sets
\* InsecureSkipVerify to shouldVerifyTLS, the opposite.
C26_VerifiesUnlessDisabled ==
    [][RegisterContext
       => LET context == Head(pending)
              made == createProxyForContext(context)
              disabled == insecure /\ ~context.VerifyTLS
          IN  ~made.err
              => /\ made.tls.InsecureSkipVerify <=> disabled
                 /\ ~disabled => made.tls.RootCAs = {context.CAData}
      ]_vars

\* C27: of a start-up batch, a context whose proxy cannot be built is not
\* registered and every context whose proxy can be built is: an entry is
\* never one whose proxy cannot be built, and a turn of the loop registers
\* its context, the other entries unchanged, or skips it.  The in-cluster
\* context is stored although its proxy could not be built (C15).
C27_BadContextSkipped ==
    /\ [](\A n \in DOMAIN contextProxies :
            ~createProxyForContext(contextProxies[n].context).err)
    /\ [][RegisterContext
          => LET context == Head(pending)
                 made == createProxyForContext(context)
             IN  /\ pending' = Tail(pending)
                 /\ \A n \in DOMAIN contextProxies \ {context.Name} :
                       n \in DOMAIN contextProxies' /\ contextProxies'[n] = contextProxies[n]
                 /\ IF made.err THEN contextProxies' = contextProxies
                    ELSE /\ DOMAIN contextProxies' = DOMAIN contextProxies \cup {context.Name}
                         /\ contextProxies'[context.Name] =
                              contextProxy(context, made.proxy, KubeConfig)
         ]_vars

-----------------------------------------------------------------------------
(* The external relay *)

\* C28: a request to /externalproxy whose proxy-to URL matches no pattern of
\* the allow-list is answered 400 and not relayed; one that matches a
\* pattern is relayed to that URL.  After the http.Error of line 410 the
\* handler does not return: lines 412-419 relay the request all the same.
C28_OnlyAllowedRelayed ==
    [][\A proxyTo \in ProxyToHeaders :
         externalproxy(proxyTo)
         => IF \E i \in 1..Len(proxyURLs) : Match(proxyURLs[i], URLString(proxyTo))
            THEN /\ resp'.codes = <<>>
                 /\ resp'.body = Relayed(proxyTo)
            ELSE /\ Status(resp') = StatusBadRequest
                 /\ "relayedTo" \notin DOMAIN resp'.body
      ]_vars

-----------------------------------------------------------------------------
(* Mutual exclusion *)

\* C17: the accesses to a map exclude each other whenever one of them
\* writes: no two accesses to the same map, one of them a write, are under
\* way at the same time.  Nothing in the code orders them.
C17_MutualExclusion ==
    \A i, j \in 1..Len(accessing) :
        (i # j /\ accessing[i].map = accessing[j].map)
        => ~accessing[i].write /\ ~accessing[j].write

-----------------------------------------------------------------------------
(* Port forwards: status, watchdog, validation *)

\* C18: the status of an indexed session that is Stopped never changes again
\* while the session is indexed, whatever closes, watchdog ticks or tunnel
\* failures follow (an open that replaces the session, as in C6, is left
\* aside here).  The watchdog of an earlier tunnel with the same id stores
\* its own copy of the session, whose status is Running.
C18_StoppedIsTerminal ==
    [][\A c \in DOMAIN portForwards : \A i \in 1..Len(portForwards[c]) :
         LET v == portForwards[c][i]
         IN  (v.Status = STOPPED
                /\ IndexOfID(Slice(portForwards', c), v.ID) # 0
                /\ ~\E t \in 1..Len(tunnels) : StartPortForwardReady(t))
             => getPortForwardByID(portForwards', c, v.ID).Status = STOPPED
      ]_vars

\* C19: once a close has marked a session Stopped, the watchdog of its
\* tunnel does nothing more: no poll that leads it to send on the channel or
\* to write the session.  close never stops the ticker: the watchdog polls
\* on and, when the pod is gone, sends on the channel nobody receives from.
C19_WatchdogStopsAfterStop ==
    [][\A t \in 1..Len(tunnels) :
         LET p == tunnels[t].pfts
             v == getPortForwardByID(portForwards, p.Cluster, p.ID)
         IN  (v.closeChan = t /\ v.Status = STOPPED)
             => ~\E lookup \in PodLookups : WatchdogTick(t, lookup)
      ]_vars

\* the local ports explored, as strconv.Itoa writes them
IsLocalPort(port) == \E n \in FreePortResults \ {0} : port = ToString(n)

\* C21: an open that is answered 200 returns a session with a non-empty id
\* and a numeric local port, and right after it get and list of its target
\* return the session with that id, status Running; and a session is indexed
\* as Running only when the tunnel of its channel has reported ready.
C21_OpenedIsRunning ==
    /\ [][\A t \in 1..Len(tunnels) :
            (StartPortForwardReady(t) /\ Status(resp') = StatusOK)
            => LET p == resp'.body
                   v == getPortForwardByID(portForwards', p.Cluster, p.ID)
                   list == getPortForwardList(portForwards', p.Cluster)
               IN  /\ p.ID # ""
                   /\ IsLocalPort(p.Port)
                   /\ v.ID = p.ID /\ v.Port = p.Port /\ v.Pod = p.Pod
                   /\ v.Status = RUNNING
                   /\ v.closeChan = t
                   /\ \E i \in 1..Len(list) : list[i] = v
         ]_vars
    /\ [](\A c \in DOMAIN portForwards : \A i \in 1..Len(portForwards[c]) :
            portForwards[c][i].Status = RUNNING
            => tunnels[portForwards[c][i].closeChan].ready)

\* an open without id and port was answered 200 with the id and the port it
\* was given, and the session is indexed as Running
C21_Opened ==
    /\ resp.op = "POST /portforward"
    /\ Status(resp) = StatusOK
    /\ resp.body.ID = "uuid-1" /\ resp.body.Port = "9000"
    /\ getPortForwardByID(portForwards, "c1", "uuid-1").Status = RUNNING
    /\ tunnels[1].ready

\* C22: when ForwardPorts has returned an error, the session of its tunnel is
\* eventually indexed with the error's text, and the goroutine has ended.
\* The goroutine first sends on stopChan (line 807), from which only
\* ForwardPorts itself ever received: it parks there for ever and never gets
\* to lines 809-810.
C22_ForwarderErrorRecorded ==
    \A t \in 1..MaxTunnels :
        (t <= Len(tunnels) /\ tunnels[t].forwarder = "blocked")
        ~> (/\ t <= Len(tunnels)
            /\ tunnels[t].forwarder # "blocked"
            /\ LET p == tunnels[t].pfts
                    v == getPortForwardByID(portForwards, p.Cluster, p.ID)
                IN  v.closeChan = t /\ v.Error # "")

\* C23: a session leaves the index of its target only by a DELETE
\* /portforward with its id and stopOrDelete false: no store of a session (by
\* an open, a forwarder, a watchdog), no operation on another session and no
\* change of the registry removes it.  Nothing serialises the goroutines
\* (C17): a store that found its session at an index writes at that index
\* after a delete and a store have moved another session there.
C23_LeavesOnlyByDelete ==
    [][\A c \in DOMAIN portForwards : \A i \in 1..Len(portForwards[c]) :
         LET v == portForwards[c][i]
         IN  IndexOfID(Slice(portForwards', c), v.ID) = 0
             => \E dp \in DeleteBodies \ {MalformedBody} :
                   /\ dp.Cluster = c /\ dp.ID = v.ID /\ ~dp.StopOrDelete
                   /\ PortForwardDelete(dp)
      ]_vars

\* C35: the sessions indexed under one cluster have pairwise different ids.
\* A store looks for the id (line 126) and appends when it finds none (line
\* 133) with nothing in between that keeps another goroutine out (C17): two
\* stores of one id that both scan before either writes both append.
C35_UniqueIds ==
    \A c \in DOMAIN portForwards :
        \A i, j \in 1..Len(portForwards[c]) :
            i # j => portForwards[c][i].ID # portForwards[c][j].ID

\* C24: a DELETE /portforward for an id that is not indexed under its
\* cluster fails with the not-found error (500), whether stopOrDelete is true
\* or false; nothing is sent on a channel (no forwarder is stopped, no sender
\* parks) and the index is unchanged.
C24_CloseNotFound ==
    [][\A dp \in DeleteBodies \ {MalformedBody} :
         LET s == Slice(portForwards, dp.Cluster)
         IN  (dp.ID # "" /\ dp.Cluster # ""
                /\ (\A i \in 1..Len(s) : s[i].ID # dp.ID)
                /\ PortForwardDelete(dp))
             => /\ resp' = Response("DELETE /portforward", <<StatusInternalServerError>>, NoBody)
                /\ tunnels' = tunnels
                /\ blockedSends' = blockedSends
                /\ portForwards' = portForwards
      ]_vars

\* a close was answered with the not-found error while a session of another
\* id was indexed and its tunnel forwarding
C24_NotFound ==
    /\ resp = Response("DELETE /portforward", <<StatusInternalServerError>>, NoBody)
    /\ Len(Slice(portForwards, "c1")) = 1
    /\ portForwards["c1"][1].Status = RUNNING
    /\ tunnels[portForwards["c1"][1].closeChan].forwarder = "forwarding"

\* C33: a tick of the watchdog whose pod lookup fails with ECONNREFUSED
\* changes nothing: nothing is sent on stopChan (the forwarder goes on and no
\* sender parks), the session and the index are as before (a session that
\* was Running with an empty error still is), and the watchdog is still in
\* its loop, polling at the next tick.
C33_RefusedTolerated ==
    [][\A t \in 1..Len(tunnels) :
         WatchdogTick(t, "refused")
         => /\ tunnels' = tunnels
            /\ tunnels'[t].watchdog = "ticking"
            /\ blockedSends' = blockedSends
            /\ portForwards' = portForwards
            /\ LET p == tunnels[t].pfts
                   v == getPortForwardByID(portForwards', p.Cluster, p.ID)
               IN  (Receiving(t) /\ getPortForwardByID(portForwards, p.Cluster, p.ID).closeChan = t)
                   => /\ tunnels'[t].forwarder = "forwarding"
                      /\ v.Status = getPortForwardByID(portForwards, p.Cluster, p.ID).Status
                      /\ v.Error = getPortForwardByID(portForwards, p.Cluster, p.ID).Error
      ]_vars

\* a watchdog is in its loop, where a refused lookup finds and leaves it: its
\* tunnel is forwarding and its session is indexed, Running, without error
C33_Polling ==
    \E t \in 1..Len(tunnels) :
        LET p == tunnels[t].pfts
            v == getPortForwardByID(portForwards, p.Cluster, p.ID)
        IN  /\ tunnels[t].watchdog = "ticking"
            /\ ENABLED WatchdogTick(t, "refused")
            /\ Receiving(t)
            /\ v.closeChan = t /\ v.Status = RUNNING /\ v.Error = ""

\* C36: once its open has returned, a tunnel whose ForwardPorts is still
\* forwarding has a session indexed under its cluster that holds its
\* stopChan as closeChan, through which a close can stop it.  A DELETE with
\* stopOrDelete false only drops the entry (line 142) and sends nothing, and
\* a store of another tunnel with the same id replaces the entry and with it
\* the closeChan (line 128): the forwarder goes on with no entry left that
\* holds its channel.
C36_RunningIsCancellable ==
    \A t \in 1..Len(tunnels) :
        (tunnels[t].caller = "returned" /\ Receiving(t))
        => \E i \in 1..Len(Slice(portForwards, tunnels[t].pfts.Cluster)) :
              portForwards[tunnels[t].pfts.Cluster][i].closeChan = t

\* C29: a POST /portforward without port for which GetFreePort fails is
\* answered 500 and starts nothing: no forwarder, no watchdog, no session.
\* The err of line 499 is local to the block of line 497: the check of line
\* 508 reads the outer err, which is nil, and startPortForward is called
\* with an empty port after the 500 was written.
C29_NoFreePortRejected ==
    [][\A r \in PortForwardRequests :
         (~Malformed(r.body) /\ validatePortForward(r.body) = ""
            /\ r.body.Port = "" /\ r.freePort = 0
            /\ PortForwardPost(r.body, r.authorization, r.freePort, r.setupOk))
         => /\ Status(resp') = StatusInternalServerError
            /\ resp'.op = "POST /portforward"
            /\ tunnels' = tunnels
            /\ portForwards' = portForwards
      ]_vars

\* C20: a POST /portforward whose payload lacks the namespace, the pod, the
\* target port or the cluster is answered 400 and starts nothing: no
\* forwarder, no watchdog, the store unchanged.  Lines 486-491 index the
\* split Authorization header before the payload is validated and panic on
\* a header that is no bearer token.
C20_InvalidRejected ==
    [][\A r \in PortForwardRequests :
         (~Malformed(r.body) /\ validatePortForward(r.body) # ""
            /\ PortForwardPost(r.body, r.authorization, r.freePort, r.setupOk))
         => /\ Status(resp') = StatusBadRequest
            /\ tunnels' = tunnels
            /\ portForwards' = portForwards
      ]_vars

====
